---- MODULE Spec2Model ----
(***************************************************************************)
(* Model of pkg/server/server.go: the Janus server lifecycle and the       *)
(* configuration hot-reload loop.                                          *)
(*                                                                         *)
(* Tasks (goroutines) modelled, each with its own program counter:         *)
(*   - the HTTP task running startHTTPServers / listenAndServe,            *)
(*   - the Watch Loop running listenProviders / handleEvent,               *)
(*   - the cancellation watcher of StartWithContext,                       *)
(*   - the callers of Wait, Stop and Close, and Close's supervisory task,  *)
(*   - the configuration provider.                                         *)
(* The request-serving tasks only read s.server.Handler and the routes of  *)
(* the router it names: what any request can see at a moment is the route  *)
(* table routers[handler] of that moment. One request-serving task has a   *)
(* position of its own, for the accesses to s.server.Handler (SpecServe).  *)
(* A panic in any goroutine, log.Fatal and os.Exit end the whole process:  *)
(* every action is guarded by abort = "none".                              *)
(***************************************************************************)
EXTENDS Naturals, Sequences, FiniteSets

VARIABLES
    abort,                  \* "none", or why the process ended
    ctxDone,                \* the context given to StartWithContext is cancelled
    configurationChan,      \* s.configurationChan: the pending Change Messages
    confClosed,             \* s.configurationChan has been closed
    stopChan,               \* s.stopChan: the pending stop values
    stopClosed,             \* s.stopChan has been closed
    currentConfigurations,  \* s.currentConfigurations
    started,                \* s.started
    register,               \* s.register: 0 is nil, else the router it is bound to
    defLoader,              \* s.defLoader is set
    server,                 \* s.server: "nil", "serving" or "closed"
    handler,                \* s.server.Handler: a router id (0 while s.server is nil)
    routers,                \* the routers built so far: router id -> route table
    httpPc,                 \* position of the HTTP task
    wlPc,                   \* position of the Watch Loop
    wlIdx,                  \* RegisterAPIs: number of specs already visited
    newRouter,              \* handleEvent's local newRouter (0 outside a reload)
    initRouter,             \* startHTTPServers' local r (0 before it is built)
    waitPc,                 \* position of the caller of Wait
    stopPc,                 \* position of the caller of Stop
    closePc,                \* position of each Close invocation
    ctxErr,                 \* ctx.Err() of each Close invocation's timeout context
    timer,                  \* when each Close invocation's 10 s timer fired
    supPc,                  \* position of each Close invocation's supervisory task
    sent,                   \* history: the messages the provider has sent
    handled,                \* history: the snapshots passed to handleEvent
    events,                 \* history: the lifecycle events emitted
    reqPc                   \* position of a request-serving task of the listener

vars == <<abort, ctxDone, configurationChan, confClosed, stopChan, stopClosed,
          currentConfigurations, started, register, defLoader, server, handler,
          routers, httpPc, wlPc, wlIdx, newRouter, initRouter, waitPc, stopPc,
          closePc, ctxErr, timer, supPc, sent, handled, events, reqPc>>

----------------------------------------------------------------------------
(* Bounds of the model *)

\* the provider sends at most this many Change Messages
MaxSends == 3

(* Program constants *)

\* make(chan api.ConfigurationChanged, 100)
ConfigChanCap == 100

\* make(chan bool, 1)
StopChanCap == 1

----------------------------------------------------------------------------
(* Data *)

\* a []*api.Spec value: the nil slice, or a (possibly empty) list of specs
NilConf == [isNil |-> TRUE, specs |-> <<>>]

Conf(s) == [isNil |-> FALSE, specs |-> s]

\* route specs whose materialization fails (a malformed route spec)
Malformed == {"x"}

\* the snapshots the provider may push
Snapshots == {NilConf, Conf(<<>>), Conf(<<"a", "b">>), Conf(<<"x">>)}

\* the dummy 404 route of startHTTPServers: r.Any("/", httpErrors.NotFound)
NotFoundRoute == "/"

Range(s) == {s[i] : i \in 1..Len(s)}

\* a comparison that never finds two snapshots equal (identity of the slices)
DeepEqual_never(a, b) == FALSE

\* reflect.DeepEqual on two []*api.Spec: a nil slice and an empty non-nil
\* slice are not deeply equal; otherwise element-wise structural equality
DeepEqual(a, b) ==
    /\ a.isNil = b.isNil
    /\ Len(a.specs) = Len(b.specs)
    /\ \A i \in 1..Len(a.specs) : a.specs[i] = b.specs[i]

\* the Close invocations: by the operator, and the two of the cancellation
\* watcher (the explicit s.Close() and the deferred one)
CloseIds == {"op", "w1", "w2"}

----------------------------------------------------------------------------
(* Go channels *)

\* a send that never blocks: an unbounded buffer
CanSend_unbounded(ch, cap) == TRUE

\* a send on a buffered channel completes only while the buffer has room
CanSend(ch, cap) == Len(ch) < cap

\* a receive that yields at once, even from an empty open channel
CanRecv_always(ch, closed) == TRUE

\* a receive is ready when a value is buffered or the channel is closed
CanRecv(ch, closed) == Len(ch) > 0 \/ closed

\* a buffer that hands out the newest message first
Enqueue_lifo(ch, m) == <<m>> \o ch

\* a completed send appends to the buffer; a receive takes the head (FIFO)
Enqueue(ch, m) == Append(ch, m)

\* the buffer after a receive (a closed, drained channel stays empty)
AfterRecv(ch) == IF Len(ch) > 0 THEN Tail(ch) ELSE ch

----------------------------------------------------------------------------
(* Routers *)

\* createRouter: a fresh router with the middleware chain and no route
createRouter == {}

\* RoutesCount() < 1 => r.Any("/", httpErrors.NotFound)
AddDummyRoute(table) ==
    IF Cardinality(table) < 1 THEN table \cup {NotFoundRoute} ELSE table

\* RegisterAPIs on one spec: a valid spec becomes a route of the router the
\* register is bound to; a malformed one is logged and left out
Materialize(table, spec) ==
    IF spec \in Malformed THEN table ELSE table \cup {spec}

----------------------------------------------------------------------------
(* New, and the goroutines StartWithContext has spawned *)

Init ==
    /\ abort = "none"
    /\ ctxDone = FALSE
    /\ configurationChan = <<>>
    /\ confClosed = FALSE
    /\ stopChan = <<>>
    /\ stopClosed = FALSE
    /\ currentConfigurations = NilConf
    /\ started = FALSE
    /\ register = 0
    /\ defLoader = FALSE
    /\ server = "nil"
    /\ handler = 0
    /\ routers = <<>>
    /\ httpPc = "create"
    /\ wlPc = "select"
    /\ wlIdx = 0
    /\ newRouter = 0
    /\ initRouter = 0
    /\ waitPc = "idle"
    /\ stopPc = "idle"
    /\ closePc = [id \in CloseIds |-> "idle"]
    /\ ctxErr = [id \in CloseIds |-> "none"]
    /\ timer = [id \in CloseIds |-> "unset"]
    /\ supPc = [id \in CloseIds |-> "none"]
    /\ sent = <<>>
    /\ handled = <<>>
    /\ events = <<>>
    /\ reqPc = "idle"

\* the variable groups the actions leave alone
chanVars == <<configurationChan, confClosed, stopChan, stopClosed>>
httpVars == <<register, defLoader, server, handler, routers, httpPc, initRouter>>
loopVars == <<currentConfigurations, started, wlPc, wlIdx, newRouter>>
shutVars == <<waitPc, stopPc, closePc, ctxErr, timer, supPc>>
histVars == <<sent, handled, events>>

----------------------------------------------------------------------------
(* The HTTP task: startHTTPServers and listenAndServe *)

\* r := s.createRouter(); the dummy 404 route; s.register = proxy.NewRegister(r, ...)
HTTPCreateRouter ==
    /\ abort = "none"
    /\ httpPc = "create"
    /\ routers' = Append(routers, AddDummyRoute(createRouter))
    /\ initRouter' = Len(routers) + 1
    /\ register' = Len(routers) + 1
    /\ httpPc' = "loader"
    /\ UNCHANGED <<reqPc, abort, ctxDone, chanVars, defLoader, server, handler,
                   loopVars, shutVars, histVars>>

\* s.defLoader = loader.NewAPILoader(s.register)
HTTPSetLoader ==
    /\ abort = "none"
    /\ httpPc = "loader"
    /\ defLoader' = TRUE
    /\ httpPc' = "listen"
    /\ UNCHANGED <<reqPc, abort, ctxDone, chanVars, register, server, handler, routers,
                   initRouter, loopVars, shutVars, histVars>>

\* listenAndServe: s.server = &http.Server{Handler: handler}, net.Listen, Serve
HTTPListenAndServe ==
    /\ abort = "none"
    /\ httpPc = "listen"
    /\ server' = "serving"
    /\ handler' = initRouter
    /\ httpPc' = "serve"
    /\ UNCHANGED <<reqPc, abort, ctxDone, chanVars, register, defLoader, routers,
                   initRouter, loopVars, shutVars, histVars>>

\* net.Listen fails: startHTTPServers returns the error and log.Fatal exits
HTTPListenFails ==
    /\ abort = "none"
    /\ httpPc = "listen"
    /\ abort' = "fatal_listen"
    /\ UNCHANGED <<reqPc, ctxDone, chanVars, httpVars, loopVars, shutVars, histVars>>

\* Serve returns ErrServerClosed once the server is shut down or closed:
\* startHTTPServers returns a non-nil error and log.Fatal exits the process
HTTPServeReturns ==
    /\ abort = "none"
    /\ httpPc = "serve"
    /\ server = "closed"
    /\ abort' = "fatal_http"
    /\ UNCHANGED <<reqPc, ctxDone, chanVars, httpVars, loopVars, shutVars, histVars>>

----------------------------------------------------------------------------
(* The configuration provider: s.provider.Watch(ctx, s.configurationChan) *)

\* the provider pushes one Change Message; the send blocks while the channel
\* is full and panics on a closed channel; the provider stops once ctx is done
ProviderSend ==
    /\ abort = "none"
    /\ ~ctxDone
    /\ Len(sent) < MaxSends
    /\ \E m \in Snapshots :
         IF confClosed
         THEN /\ abort' = "panic_send_on_closed"
              /\ UNCHANGED <<configurationChan, sent>>
         ELSE /\ CanSend(configurationChan, ConfigChanCap)
              /\ configurationChan' = Enqueue(configurationChan, m)
              /\ sent' = Append(sent, m)
              /\ UNCHANGED abort
    /\ UNCHANGED <<reqPc, ctxDone, confClosed, stopChan, stopClosed, httpVars, loopVars,
                   shutVars, handled, events>>

----------------------------------------------------------------------------
(* The Watch Loop: listenProviders *)

\* case <-stop: return
WLStop ==
    /\ abort = "none"
    /\ wlPc = "select"
    /\ CanRecv(stopChan, stopClosed)
    /\ stopChan' = AfterRecv(stopChan)
    /\ wlPc' = "done"
    /\ UNCHANGED <<reqPc, abort, ctxDone, configurationChan, confClosed, stopClosed,
                   httpVars, currentConfigurations, started, wlIdx, newRouter,
                   shutVars, histVars>>

\* handleEvent taking the cold-start branch whatever s.started is
handleEventEntry_alwaysCold(isStarted) == "cold_emit"

\* where handleEvent starts: the cold start while !s.started, else the reload
handleEventEntry(isStarted) == IF ~isStarted THEN "cold_emit" ELSE "warm_create"

\* a test that takes the snapshot without specs for the end of the provider
EndsLoop_onEmpty(ch) == Len(ch) = 0 \/ Head(ch).specs = <<>>

\* !ok || configMsg.Configurations == nil, for the receive from channel ch:
\* !ok is the closed channel with nothing left in its buffer
EndsLoop(ch) == Len(ch) = 0 \/ Head(ch).isNil

\* case configMsg, ok := <-s.configurationChan: the closed channel and the nil
\* snapshot end the loop, an equal snapshot is skipped, any other one becomes
\* s.currentConfigurations and is passed to handleEvent
WLConfig ==
    /\ abort = "none"
    /\ wlPc = "select"
    /\ CanRecv(configurationChan, confClosed)
    /\ configurationChan' = AfterRecv(configurationChan)
    /\ IF EndsLoop(configurationChan)
       THEN /\ wlPc' = "done"
            /\ UNCHANGED <<currentConfigurations, handled>>
       ELSE IF DeepEqual(currentConfigurations, Head(configurationChan))
       THEN UNCHANGED <<wlPc, currentConfigurations, handled>>
       ELSE /\ currentConfigurations' = Head(configurationChan)
            /\ handled' = Append(handled, Head(configurationChan))
            /\ wlPc' = handleEventEntry(started)
    /\ UNCHANGED <<reqPc, abort, ctxDone, confClosed, stopChan, stopClosed, httpVars,
                   started, wlIdx, newRouter, shutVars, sent, events>>

----------------------------------------------------------------------------
(* The Reconfiguration Orchestrator: handleEvent *)

\* plugin.EmitEvent(plugin.StartupEvent, event), Configuration: specs
ColdEmitStartup ==
    /\ abort = "none"
    /\ wlPc = "cold_emit"
    /\ events' = Append(events, [kind |-> "Startup", conf |-> currentConfigurations])
    /\ wlPc' = "cold_register"
    /\ wlIdx' = 0
    /\ UNCHANGED <<reqPc, abort, ctxDone, chanVars, httpVars, currentConfigurations,
                   started, newRouter, shutVars, sent, handled>>

\* s.defLoader.RegisterAPIs(specs), one spec at a time, onto the router the
\* register is bound to; an unset loader is a nil dereference
RegisterAPIs ==
    /\ abort = "none"
    /\ wlPc \in {"cold_register", "warm_register"}
    /\ wlIdx < Len(currentConfigurations.specs)
    /\ IF ~defLoader
       THEN /\ abort' = "panic_nil"
            /\ UNCHANGED <<routers, wlIdx>>
       ELSE /\ routers' = [routers EXCEPT ![register] =
                  Materialize(@, currentConfigurations.specs[wlIdx + 1])]
            /\ wlIdx' = wlIdx + 1
            /\ UNCHANGED abort
    /\ UNCHANGED <<reqPc, ctxDone, chanVars, register, defLoader, server, handler, httpPc,
                   initRouter, currentConfigurations, started, wlPc, newRouter,
                   shutVars, histVars>>

\* a RegisterAPIs call that returns before it has visited every spec
RegisterAPIsReturned_early(idx, conf) == TRUE

\* s.defLoader.RegisterAPIs(specs) returns once it has visited every spec
RegisterAPIsReturned(idx, conf) == idx = Len(conf.specs)

\* s.started = true
ColdSetStarted ==
    /\ abort = "none"
    /\ wlPc = "cold_register"
    /\ RegisterAPIsReturned(wlIdx, currentConfigurations)
    /\ started' = TRUE
    /\ wlPc' = "select"
    /\ wlIdx' = 0
    /\ UNCHANGED <<reqPc, abort, ctxDone, chanVars, httpVars, currentConfigurations,
                   newRouter, shutVars, histVars>>

\* newRouter := s.createRouter()
WarmCreateRouter ==
    /\ abort = "none"
    /\ wlPc = "warm_create"
    /\ routers' = Append(routers, createRouter)
    /\ newRouter' = Len(routers) + 1
    /\ wlPc' = "warm_update"
    /\ UNCHANGED <<reqPc, abort, ctxDone, chanVars, register, defLoader, server, handler,
                   httpPc, initRouter, currentConfigurations, started, wlIdx,
                   shutVars, histVars>>

\* an UpdateRouter that leaves the register bound to its previous router
UpdateRouter_keep(bound, r) == bound

\* UpdateRouter: the register is bound to the router it is given
UpdateRouter(bound, r) == r

\* s.register.UpdateRouter(newRouter)
WarmUpdateRouter ==
    /\ abort = "none"
    /\ wlPc = "warm_update"
    /\ IF register = 0
       THEN /\ abort' = "panic_nil"
            /\ UNCHANGED <<register, wlPc, wlIdx>>
       ELSE /\ register' = UpdateRouter(register, newRouter)
            /\ wlPc' = "warm_register"
            /\ wlIdx' = 0
            /\ UNCHANGED abort
    /\ UNCHANGED <<reqPc, ctxDone, chanVars, defLoader, server, handler, routers, httpPc,
                   initRouter, currentConfigurations, started, newRouter,
                   shutVars, histVars>>

\* plugin.EmitEvent(plugin.ReloadEvent, plugin.OnReload{Configurations: specs})
WarmEmitReload ==
    /\ abort = "none"
    /\ wlPc = "warm_register"
    /\ RegisterAPIsReturned(wlIdx, currentConfigurations)
    /\ events' = Append(events, [kind |-> "Reload", conf |-> currentConfigurations])
    /\ wlPc' = "warm_install"
    /\ UNCHANGED <<reqPc, abort, ctxDone, chanVars, httpVars, currentConfigurations,
                   started, wlIdx, newRouter, shutVars, sent, handled>>

\* s.server.Handler = newRouter
WarmInstall ==
    /\ abort = "none"
    /\ wlPc = "warm_install"
    /\ IF server = "nil"
       THEN /\ abort' = "panic_nil"
            /\ UNCHANGED <<handler, wlPc, wlIdx, newRouter>>
       ELSE /\ handler' = newRouter
            /\ wlPc' = "select"
            /\ wlIdx' = 0
            /\ newRouter' = 0
            /\ UNCHANGED abort
    /\ UNCHANGED <<reqPc, ctxDone, chanVars, register, defLoader, server, routers, httpPc,
                   initRouter, currentConfigurations, started, shutVars, histVars>>

----------------------------------------------------------------------------
(* Wait and Stop *)

\* an operator task calls Wait and blocks in <-s.stopChan
WaitCall ==
    /\ abort = "none"
    /\ waitPc = "idle"
    /\ waitPc' = "blocked"
    /\ UNCHANGED <<reqPc, abort, ctxDone, chanVars, httpVars, loopVars, stopPc, closePc,
                   ctxErr, timer, supPc, histVars>>

\* <-s.stopChan yields: a buffered value is taken, or the channel is closed
WaitReturn ==
    /\ abort = "none"
    /\ waitPc = "blocked"
    /\ CanRecv(stopChan, stopClosed)
    /\ stopChan' = AfterRecv(stopChan)
    /\ waitPc' = "returned"
    /\ UNCHANGED <<reqPc, abort, ctxDone, configurationChan, confClosed, stopClosed,
                   httpVars, loopVars, stopPc, closePc, ctxErr, timer, supPc,
                   histVars>>

\* the operator calls Stop (the operator shuts down once: Stop or Close)
StopCall ==
    /\ abort = "none"
    /\ stopPc = "idle"
    /\ closePc["op"] = "idle"
    /\ stopPc' = "shutdown"
    /\ UNCHANGED <<reqPc, abort, ctxDone, chanVars, httpVars, loopVars, waitPc, closePc,
                   ctxErr, timer, supPc, histVars>>

\* s.server.Shutdown(ctx), and s.server.Close() when the grace time runs out
StopShutdown ==
    /\ abort = "none"
    /\ stopPc = "shutdown"
    /\ IF server = "nil"
       THEN /\ abort' = "panic_nil"
            /\ UNCHANGED <<server, stopPc>>
       ELSE /\ server' = "closed"
            /\ stopPc' = "send"
            /\ UNCHANGED abort
    /\ UNCHANGED <<reqPc, ctxDone, chanVars, register, defLoader, handler, routers, httpPc,
                   initRouter, loopVars, waitPc, closePc, ctxErr, timer, supPc,
                   histVars>>

\* s.stopChan <- true: blocks while the buffer is full, panics once closed
StopSend ==
    /\ abort = "none"
    /\ stopPc = "send"
    /\ IF stopClosed
       THEN /\ abort' = "panic_send_on_closed"
            /\ UNCHANGED <<stopChan, stopPc>>
       ELSE /\ CanSend(stopChan, StopChanCap)
            /\ stopChan' = Enqueue(stopChan, TRUE)
            /\ stopPc' = "done"
            /\ UNCHANGED abort
    /\ UNCHANGED <<reqPc, ctxDone, configurationChan, confClosed, stopClosed, httpVars,
                   loopVars, waitPc, closePc, ctxErr, timer, supPc, histVars>>

----------------------------------------------------------------------------
(* Close, its timeout context and its supervisory task *)

\* the context given to StartWithContext is cancelled
CtxCancel ==
    /\ abort = "none"
    /\ ~ctxDone
    /\ ctxDone' = TRUE
    /\ UNCHANGED <<reqPc, abort, chanVars, httpVars, loopVars, shutVars, histVars>>

\* who calls Close: the operator (who has not called Stop), the watcher once
\* ctx is done and the grace sleep is over, and the watcher's deferred call
\* once its explicit call has returned
MayCallClose(id) ==
    CASE id = "op" -> stopPc = "idle"
      [] id = "w1" -> ctxDone
      [] id = "w2" -> closePc["w1"] = "done"

\* ctx, cancel := context.WithTimeout(context.Background(), 10*time.Second)
\* and the supervisory goroutine is started
CloseCall(id) ==
    /\ abort = "none"
    /\ closePc[id] = "idle"
    /\ MayCallClose(id)
    /\ closePc' = [closePc EXCEPT ![id] = "closeStop"]
    /\ timer' = [timer EXCEPT ![id] = "running"]
    /\ supPc' = [supPc EXCEPT ![id] = "waiting"]
    /\ UNCHANGED <<reqPc, abort, ctxDone, chanVars, httpVars, loopVars, waitPc, stopPc,
                   ctxErr, histVars>>

\* close(s.stopChan): closing a closed channel panics
CloseStopChan(id) ==
    /\ abort = "none"
    /\ closePc[id] = "closeStop"
    /\ IF stopClosed
       THEN /\ abort' = "panic_close_of_closed"
            /\ UNCHANGED <<stopClosed, closePc>>
       ELSE /\ stopClosed' = TRUE
            /\ closePc' = [closePc EXCEPT ![id] = "closeConf"]
            /\ UNCHANGED abort
    /\ UNCHANGED <<reqPc, ctxDone, configurationChan, confClosed, stopChan, httpVars,
                   loopVars, waitPc, stopPc, ctxErr, timer, supPc, histVars>>

\* close(s.configurationChan)
CloseConfChan(id) ==
    /\ abort = "none"
    /\ closePc[id] = "closeConf"
    /\ IF confClosed
       THEN /\ abort' = "panic_close_of_closed"
            /\ UNCHANGED <<confClosed, closePc>>
       ELSE /\ confClosed' = TRUE
            /\ closePc' = [closePc EXCEPT ![id] = "serverClose"]
            /\ UNCHANGED abort
    /\ UNCHANGED <<reqPc, ctxDone, configurationChan, stopChan, stopClosed, httpVars,
                   loopVars, waitPc, stopPc, ctxErr, timer, supPc, histVars>>

\* cancel() on a context: the first of cancel and the deadline decides Err()
Cancelled(err) == IF err = "none" THEN "Canceled" ELSE err

\* the deadline of a context passing
DeadlinePassed(err) == IF err = "none" THEN "DeadlineExceeded" ELSE err

\* cancel() also stops the context's timer
StopTimer(t) == IF t = "running" THEN "stopped" ELSE t

\* return s.server.Close(), then the deferred cancel(); s.server.Close() may
\* take arbitrarily long
CloseServer(id) ==
    /\ abort = "none"
    /\ closePc[id] = "serverClose"
    /\ IF server = "nil"
       THEN /\ abort' = "panic_nil"
            /\ UNCHANGED <<server, closePc, ctxErr, timer>>
       ELSE /\ server' = "closed"
            /\ closePc' = [closePc EXCEPT ![id] = "done"]
            /\ ctxErr' = [ctxErr EXCEPT ![id] = Cancelled(@)]
            /\ timer' = [timer EXCEPT ![id] = StopTimer(@)]
            /\ UNCHANGED abort
    /\ UNCHANGED <<reqPc, ctxDone, chanVars, register, defLoader, handler, routers, httpPc,
                   initRouter, loopVars, waitPc, stopPc, supPc, histVars>>

\* 10 seconds after context.WithTimeout the deadline passes; timer records
\* whether s.server.Close() had returned by then
TimerFires(id) ==
    /\ abort = "none"
    /\ timer[id] = "running"
    /\ timer' = [timer EXCEPT ![id] =
           IF closePc[id] = "done" THEN "after_close" ELSE "before_close"]
    /\ ctxErr' = [ctxErr EXCEPT ![id] = DeadlinePassed(@)]
    /\ UNCHANGED <<reqPc, abort, ctxDone, chanVars, httpVars, loopVars, waitPc, stopPc,
                   closePc, supPc, histVars>>

\* the two branches on ctx.Err() exchanged
SupervisorPanics_swapped(err) == err = "Canceled"

\* else if ctx.Err() == context.DeadlineExceeded { panic(...) }
SupervisorPanics(err) == err = "DeadlineExceeded"

\* the supervisory goroutine: <-ctx.Done(), then return or panic on ctx.Err()
Supervisor(id) ==
    /\ abort = "none"
    /\ supPc[id] = "waiting"
    /\ ctxErr[id] # "none"
    /\ IF SupervisorPanics(ctxErr[id])
       THEN /\ abort' = "panic_deadline"
            /\ supPc' = [supPc EXCEPT ![id] = "panicked"]
       ELSE /\ supPc' = [supPc EXCEPT ![id] = "exited"]
            /\ UNCHANGED abort
    /\ UNCHANGED <<reqPc, ctxDone, chanVars, httpVars, loopVars, waitPc, stopPc, closePc,
                   ctxErr, timer, histVars>>

----------------------------------------------------------------------------
(* A provider that re-sends *)

\* the snapshot of a provider that pushes its unchanged snapshot again and
\* again, as most providers do periodically
ResentSnapshot == Conf(<<"a", "b">>)

\* how many messages that provider pushes: more than the channel holds
MaxResends == ConfigChanCap + MaxSends

\* that provider pushes its snapshot once more; the send blocks while the
\* channel is full
ProviderResend ==
    /\ abort = "none"
    /\ ~confClosed
    /\ Len(sent) < MaxResends
    /\ CanSend(configurationChan, ConfigChanCap)
    /\ configurationChan' = Enqueue(configurationChan, ResentSnapshot)
    /\ sent' = Append(sent, ResentSnapshot)
    /\ UNCHANGED <<reqPc, abort, ctxDone, confClosed, stopChan, stopClosed, httpVars,
                   loopVars, shutVars, handled, events>>

----------------------------------------------------------------------------
(* A request-serving task: the connection goroutines of s.server.Serve *)

\* a request has arrived on a connection of the running listener; its
\* goroutine is about to read s.server.Handler
ReqAccept ==
    /\ abort = "none"
    /\ server = "serving"
    /\ reqPc = "idle"
    /\ reqPc' = "read"
    /\ UNCHANGED <<abort, ctxDone, chanVars, httpVars, loopVars, shutVars, histVars>>

\* the goroutine reads s.server.Handler, a plain field read without lock or
\* atomic operation, and dispatches the request to the router it has read
ReqDispatch ==
    /\ abort = "none"
    /\ reqPc = "read"
    /\ reqPc' = "idle"
    /\ UNCHANGED <<abort, ctxDone, chanVars, httpVars, loopVars, shutVars, histVars>>

----------------------------------------------------------------------------
(* The specifications *)

\* the steps of the program's own goroutines
ProgramStep ==
    \/ HTTPCreateRouter \/ HTTPSetLoader \/ HTTPListenAndServe \/ HTTPServeReturns
    \/ WLStop \/ WLConfig
    \/ ColdEmitStartup \/ RegisterAPIs \/ ColdSetStarted
    \/ WarmCreateRouter \/ WarmUpdateRouter \/ WarmEmitReload \/ WarmInstall
    \/ WaitReturn \/ StopShutdown \/ StopSend
    \/ \E id \in {"w1", "w2"} : CloseCall(id)
    \/ \E id \in CloseIds : CloseStopChan(id) \/ CloseConfChan(id) \/ Supervisor(id)

\* the steps of the environment: the provider, the operator, the network,
\* the clock, and how long s.server.Close() takes
EnvStep ==
    \/ ProviderSend \/ HTTPListenFails
    \/ WaitCall \/ StopCall \/ CtxCancel
    \/ CloseCall("op")
    \/ \E id \in CloseIds : CloseServer(id) \/ TimerFires(id)

Next == ProgramStep \/ EnvStep

Spec == Init /\ [][Next]_vars

\* every goroutine that can take a step eventually takes one
FairSpec == Spec /\ WF_vars(ProgramStep)

\* the server started and left running, under the provider that re-sends
NextResend ==
    \/ ProviderResend
    \/ HTTPCreateRouter \/ HTTPSetLoader \/ HTTPListenAndServe
    \/ WLConfig \/ ColdEmitStartup \/ RegisterAPIs \/ ColdSetStarted

SpecResend == Init /\ [][NextResend]_vars

\* the server started and left running, reconfigured while it serves requests
NextServe ==
    \/ ReqAccept \/ ReqDispatch
    \/ ProviderSend
    \/ HTTPCreateRouter \/ HTTPSetLoader \/ HTTPListenAndServe
    \/ WLConfig \/ ColdEmitStartup \/ RegisterAPIs \/ ColdSetStarted
    \/ WarmCreateRouter \/ WarmUpdateRouter \/ WarmEmitReload \/ WarmInstall

SpecServe == Init /\ [][NextServe]_vars

----------------------------------------------------------------------------
(* Vocabulary of the properties *)

\* the route table that is one complete snapshot: every spec of the snapshot
\* is a route and there is no other route (the dummy 404 route aside)
IsTableOf(table, conf) == table \ {NotFoundRoute} = Range(conf.specs)

\* the router installed as the Live Handler Reference is serving requests
Serving == abort = "none" /\ server = "serving"

\* the route table any request dispatched now would see
LiveTable == routers[handler]

\* the snapshot handleEvent is working on has a route that fails to materialize
FailsToMaterialize(conf) == \E i \in 1..Len(conf.specs) : conf.specs[i] \in Malformed

----------------------------------------------------------------------------
(* C1 *)

\* C1 (install-after-populate): while the listener serves, the route table of
\* the installed router is that of exactly one complete accepted snapshot, or,
\* until the cold start has completed, the table without any snapshot route;
\* never a partially populated table.
C1_InstallAfterPopulate ==
    Serving =>
        \/ ~started /\ LiveTable \ {NotFoundRoute} = {}
        \/ \E i \in 1..Len(handled) : IsTableOf(LiveTable, handled[i])

----------------------------------------------------------------------------
(* C7 *)

\* C7 (failed reload keeps the previous state): when the warm reload of a
\* snapshot whose materialization failed comes to its end, the Live Handler
\* Reference is still the router installed before, and the Route Registry is
\* bound to that router, not to the half-populated one.
C7_FailedReloadKeepsPrevious ==
    [][(/\ wlPc = "warm_install"
        /\ FailsToMaterialize(currentConfigurations)
        /\ wlPc' = "select")
       => /\ handler' = handler
          /\ register' = handler]_vars

----------------------------------------------------------------------------
(* C10 *)

\* the Watch Loop is between two reconfigurations and the snapshot applied
\* last is the empty, non-nil one
AppliedEmptySnapshot ==
    /\ wlPc \in {"select", "done"}
    /\ ~currentConfigurations.isNil
    /\ currentConfigurations.specs = <<>>

\* C10 (never an empty serving router): while the listener serves and the
\* applied snapshot has zero routes, the installed router has at least one
\* route: the catch-all not-found route, at cold start and after a warm reload.
C10_NeverEmptyRouter ==
    (Serving /\ AppliedEmptySnapshot) =>
        /\ Cardinality(LiveTable) >= 1
        /\ NotFoundRoute \in LiveTable

----------------------------------------------------------------------------
(* C2 *)

\* the cold start has run to its end
ColdStartDone == Len(handled) >= 1 /\ wlPc \notin {"cold_emit", "cold_register"}

\* handleEvent is between its entry and the emission of its event
EventPending == wlPc \in {"cold_emit", "warm_create", "warm_update", "warm_register"}

\* C2 (cold-start-once): the events emitted are one Startup, for the first
\* snapshot handled, which is the first message sent and not nil, followed by
\* one Reload for each later snapshot handled, in order; started is true
\* exactly from the end of the cold start on.
C2_ColdStartOnce ==
    /\ Len(events) = IF EventPending THEN Len(handled) - 1 ELSE Len(handled)
    /\ \A i \in 1..Len(events) :
         /\ events[i].kind = IF i = 1 THEN "Startup" ELSE "Reload"
         /\ events[i].conf = handled[i]
    /\ Len(handled) >= 1 => handled[1] = sent[1] /\ ~sent[1].isNil
    /\ started = ColdStartDone

\* a snapshot equal to an older, non-adjacent one (A, B, A) made a Reload
C2_Witness ==
    /\ Len(events) = 3
    /\ events[1].kind = "Startup" /\ events[2].kind = "Reload"
    /\ events[3] = [kind |-> "Reload", conf |-> events[1].conf]
    /\ started

----------------------------------------------------------------------------
(* C3 *)

\* the Watch Loop takes a (non-nil) snapshot equal to Current Configuration
TakesDuplicate ==
    /\ wlPc = "select"
    /\ configurationChan # <<>>
    /\ ~Head(configurationChan).isNil
    /\ Head(configurationChan) = currentConfigurations
    /\ configurationChan' = Tail(configurationChan)

\* C3 (dedup idempotence): taking a snapshot equal to Current Configuration
\* invokes no handleEvent, builds no router, emits no event and leaves Current
\* Configuration, started and the Live Handler Reference unchanged; no two
\* snapshots handled in a row are equal.
C3_DedupIdempotence ==
    /\ [](\A i \in 1..(Len(handled) - 1) : handled[i] # handled[i + 1])
    /\ [][TakesDuplicate =>
            UNCHANGED <<handled, routers, events, currentConfigurations, started,
                        handler, register, wlPc>>]_vars

\* a snapshot was sent twice in a row, both were taken, one was handled
C3_Witness ==
    /\ Len(sent) = 2 /\ sent[1] = sent[2] /\ ~sent[1].isNil
    /\ configurationChan = <<>>
    /\ wlPc = "select" /\ started
    /\ Len(handled) = 1

----------------------------------------------------------------------------
(* C8 *)

\* the sequence with every run of equal consecutive elements collapsed to its
\* first element
RECURSIVE Collapse(_)
Collapse(s) ==
    IF Len(s) <= 1 THEN s
    ELSE LET front == Collapse(SubSeq(s, 1, Len(s) - 1))
         IN  IF s[Len(s)] = s[Len(s) - 1] THEN front ELSE Append(front, s[Len(s)])

\* the messages the Watch Loop has taken from the channel
Taken == SubSeq(sent, 1, Len(sent) - Len(configurationChan))

\* C8 (FIFO, no skipping): while the Watch Loop is running, the snapshots
\* passed to handleEvent are the messages taken so far, in order, with every
\* run of equal consecutive snapshots collapsed; the channel holds the rest of
\* what was sent; Current Configuration is the snapshot handled last, nil
\* before the first.
C8_FifoNoSkipping ==
    wlPc # "done" =>
        /\ Len(configurationChan) <= Len(sent)
        /\ configurationChan = SubSeq(sent, Len(Taken) + 1, Len(sent))
        /\ handled = Collapse(Taken)
        /\ currentConfigurations =
             IF handled = <<>> THEN NilConf ELSE handled[Len(handled)]

\* A, A, B were sent and taken; A and B were handled
C8_Witness ==
    /\ Len(sent) = 3 /\ sent[1] = sent[2] /\ sent[2] # sent[3]
    /\ configurationChan = <<>>
    /\ wlPc = "select"
    /\ Len(handled) = 2 /\ handled[2] = sent[3]

----------------------------------------------------------------------------
(* C6 *)

----------------------------------------------------------------------------
(* C9 *)

\* C9 (backpressure): the configuration-change channel never holds more than
\* its capacity of pending messages, and a send completes only in a state
\* where the channel is not full: a provider facing a full channel waits
\* until the Watch Loop has taken a message.
C9_Backpressure ==
    /\ [](Len(configurationChan) <= ConfigChanCap)
    /\ [][sent' # sent => Len(configurationChan) < ConfigChanCap]_vars

\* the channel is full and the provider has a message to send
C9_Witness ==
    /\ Len(configurationChan) = ConfigChanCap
    /\ Len(sent) < MaxResends
    /\ abort = "none" /\ ~confClosed

----------------------------------------------------------------------------
(* C4 *)

\* Stop is invoked on a running server: the listener serves, the Watch Loop
\* runs and one caller is blocked in Wait
StopInvokedOnRunning ==
    /\ abort = "none"
    /\ stopPc = "shutdown"
    /\ server = "serving"
    /\ wlPc # "done"
    /\ waitPc = "blocked"

\* C4 (graceful Stop releases Wait): whenever Stop is invoked on a running
\* server with a caller blocked in Wait, that Wait call eventually returns.
C4_StopReleasesWait == StopInvokedOnRunning ~> (waitPc = "returned")

----------------------------------------------------------------------------
(* C5 *)

\* a graceful Stop, or a Close, has completed
ShutdownCompleted ==
    \/ stopPc = "done"
    \/ \E id \in CloseIds : closePc[id] = "done"

\* C5 (the Watch Loop terminates after either stop path): once a Stop or a
\* Close has completed, the configuration-change channel and the stop-signal
\* channel are closed, and the Watch Loop eventually terminates (at the
\* latest with the process).
C5_LoopTerminatesAfterStop ==
    /\ []((abort = "none" /\ ShutdownCompleted) => (stopClosed /\ confClosed))
    /\ ShutdownCompleted ~> (wlPc = "done" \/ abort # "none")

----------------------------------------------------------------------------
(* C11 *)

\* Stop or Close has been invoked, by the operator or by the watcher
ShutdownInvoked ==
    \/ stopPc # "idle"
    \/ \E id \in CloseIds : closePc[id] # "idle"

\* C11 (Wait blocks until shutdown): Wait has returned only if Stop or Close
\* has been invoked, and the stop-signal channel holds a value or is closed
\* only then; a value is put on the stop-signal channel by the send of Stop
\* only, and the channel is closed by close(s.stopChan) of Close only.
C11_WaitBlocksUntilShutdown ==
    /\ []((waitPc = "returned" \/ stopChan # <<>> \/ stopClosed) => ShutdownInvoked)
    /\ [][/\ Len(stopChan') > Len(stopChan) => (stopPc = "send" /\ stopPc' = "done")
          /\ stopClosed' # stopClosed =>
                \E id \in CloseIds : /\ closePc[id] = "closeStop"
                                     /\ closePc'[id] = "closeConf"]_vars

\* a caller blocked in Wait was released by the value Stop has sent, while
\* the server kept running and reconfiguring until then
C11_Witness ==
    /\ waitPc = "returned"
    /\ stopPc = "done"
    /\ ~stopClosed
    /\ started

----------------------------------------------------------------------------
(* C12 *)

\* the context is cancelled and the operator has called neither Stop nor Close
CancelledUnattended ==
    /\ ctxDone
    /\ stopPc = "idle"
    /\ closePc["op"] = "idle"

\* C12 (single teardown on cancellation): when the context is cancelled and
\* the operator calls neither Stop nor Close, the cancellation watcher closes
\* each of the two channels once: it never comes to close(s.stopChan) with
\* the channel already closed, and no close of a closed channel ends the
\* process.
C12_SingleTeardown ==
    CancelledUnattended =>
        /\ abort # "panic_close_of_closed"
        /\ \A id \in {"w1", "w2"} : closePc[id] = "closeStop" => ~stopClosed

----------------------------------------------------------------------------
(* C13 *)

\* handleEvent is about to call a method of s.defLoader that visits a spec
AtLoaderDereference ==
    /\ wlPc \in {"cold_register", "warm_register"}
    /\ wlIdx < Len(currentConfigurations.specs)

\* C13 (collaborators established before reconfiguration): whenever
\* handleEvent comes to use the API loader, the Route Registry or the HTTP
\* server object, the HTTP task has already created it: handleEvent never
\* dereferences an unset defLoader, register or server.
C13_CollaboratorsEstablished ==
    abort = "none" =>
        /\ AtLoaderDereference => defLoader
        /\ wlPc = "warm_update" => register # 0
        /\ wlPc = "warm_install" => server # "nil"

----------------------------------------------------------------------------
(* C14 *)

\* the Watch Loop is at its select and the stop signal is ready: a value
\* sent by Stop is buffered, or Close has closed the stop-signal channel
StopReadyAtSelect ==
    /\ wlPc = "select"
    /\ CanRecv(stopChan, stopClosed)

\* C14 (stop wins): from a select at which the stop signal is ready, the
\* Watch Loop takes no Change Message from the configuration-change channel
\* and passes no snapshot to handleEvent, even when messages are pending.
C14_StopWins ==
    [][StopReadyAtSelect =>
          /\ Len(configurationChan') >= Len(configurationChan)
          /\ handled' = handled]_vars

----------------------------------------------------------------------------
(* C15 *)

\* the positions of handleEvent in a warm reload
WarmPcs == {"warm_create", "warm_update", "warm_register", "warm_install"}

\* the routes RegisterAPIs has put on a fresh router after visiting the
\* first n specs of a snapshot
RoutesOfFirst(conf, n) == Range(SubSeq(conf.specs, 1, n)) \ Malformed

\* the Reload event of the snapshot being handled is the last event emitted
ReloadEmitted ==
    /\ Len(events) = Len(handled)
    /\ events[Len(events)] = [kind |-> "Reload", conf |-> currentConfigurations]

\* C15 (warm-reload step order): in a warm reload the new router is built
\* first, then the Route Registry is bound to it, then the snapshot's routes
\* are materialized onto it, then the Reload event carrying the snapshot is
\* emitted, and only then the new router is installed as the Live Handler
\* Reference; the Watch Loop writes the handler reference in the last step
\* of the reload only, once.
C15_WarmReloadOrder ==
    /\ [](wlPc = "warm_update" =>
            /\ newRouter \in 1..Len(routers) /\ routers[newRouter] = createRouter
            /\ register # newRouter /\ handler # newRouter
            /\ Len(events) = Len(handled) - 1)
    /\ [](wlPc = "warm_register" =>
            /\ register = newRouter /\ handler # newRouter
            /\ routers[newRouter] = RoutesOfFirst(currentConfigurations, wlIdx)
            /\ Len(events) = Len(handled) - 1)
    /\ [](wlPc = "warm_install" =>
            /\ register = newRouter /\ handler # newRouter
            /\ routers[newRouter] =
                 RoutesOfFirst(currentConfigurations, Len(currentConfigurations.specs))
            /\ ReloadEmitted)
    /\ [][(wlPc \in WarmPcs /\ <<wlPc, wlIdx>>' # <<wlPc, wlIdx>>) =>
            IF wlPc = "warm_install"
            THEN handler' = newRouter /\ wlPc' = "select"
            ELSE handler' = handler]_vars

\* a warm reload has run to its end: the router it built carries the routes
\* of the snapshot and is the Live Handler Reference, after the Reload event
C15_Witness ==
    /\ wlPc = "select"
    /\ started
    /\ handler # initRouter
    /\ handler = register
    /\ routers[handler] = {"a", "b"}
    /\ events[Len(events)] = [kind |-> "Reload", conf |-> Conf(<<"a", "b">>)]

----------------------------------------------------------------------------
(* C16 *)

\* the next step of the Watch Loop is the write s.server.Handler = newRouter
WriterAtHandler == abort = "none" /\ wlPc = "warm_install" /\ server # "nil"

\* the next step of a request-serving task is its read of s.server.Handler
ReaderAtHandler == abort = "none" /\ reqPc = "read"

\* C16 (atomic handler swap): the write of the Live Handler Reference by a
\* warm reload is never concurrent with an unsynchronized read of it by a
\* request-serving task. Neither access takes a lock or is an atomic
\* operation, so the two are concurrent in every state in which each is the
\* next step of its task.
C16_AtomicHandlerSwap == ~(WriterAtHandler /\ ReaderAtHandler)

----------------------------------------------------------------------------
(* C17 *)

\* the positions of handleEvent in the cold start
ColdPcs == {"cold_emit", "cold_register"}

\* the Startup event carrying exactly the snapshot received first
StartupEmitted == events # <<>> /\ events[1] = [kind |-> "Startup", conf |-> handled[1]]

\* C17 (cold-start step order): in the cold start the Startup event carrying
\* exactly the received snapshot is emitted before any route of the snapshot
\* is materialized, and started becomes true only after all of them are; the
\* cold start builds no router and replaces neither the Live Handler
\* Reference nor the router the Route Registry is bound to.
C17_ColdStartOrder ==
    /\ [](wlPc = "cold_emit" =>
            /\ ~started /\ events = <<>> /\ handled = <<currentConfigurations>>
            /\ \A r \in 1..Len(routers) : routers[r] \ {NotFoundRoute} = {})
    /\ [](wlPc = "cold_register" =>
            /\ ~started /\ Len(events) = 1 /\ StartupEmitted
            /\ handled = <<currentConfigurations>>
            /\ wlIdx > 0 => defLoader
            /\ register # 0 => routers[register] \ {NotFoundRoute} =
                                 RoutesOfFirst(currentConfigurations, wlIdx))
    /\ [](started =>
            /\ StartupEmitted
            /\ initRouter # 0 => routers[initRouter] \ {NotFoundRoute} =
                                   RoutesOfFirst(handled[1], Len(handled[1].specs)))
    /\ [][(wlPc \in ColdPcs /\ <<wlPc, wlIdx>>' # <<wlPc, wlIdx>>) =>
            /\ Len(routers') = Len(routers)
            /\ handler' = handler
            /\ register' = register]_vars

\* the cold start of a snapshot with two routes has run to its end on the
\* router of the running listener
C17_Witness ==
    /\ started
    /\ wlPc = "select"
    /\ events = <<[kind |-> "Startup", conf |-> Conf(<<"a", "b">>)]>>
    /\ Len(routers) = 1
    /\ handler = 1
    /\ routers[1] = {NotFoundRoute, "a", "b"}

----------------------------------------------------------------------------
(* C18 *)

\* the operator has invoked Stop and the context is cancelled, so that the
\* watcher's Close runs before, after or while Stop runs
StopRacesClose == stopPc # "idle" /\ ctxDone

\* C18 (Stop/Close race): however an operator's Stop interleaves with the
\* Close triggered by the cancellation, the process is not ended by a send
\* on a closed channel nor by a close of a closed channel, and Stop, when it
\* comes to its send on the stop-signal channel, finds the channel open and
\* with room, so that the send neither panics nor blocks.
C18_StopCloseRace ==
    StopRacesClose =>
        /\ abort \notin {"panic_send_on_closed", "panic_close_of_closed"}
        /\ stopPc = "send" => (~stopClosed /\ CanSend(stopChan, StopChanCap))

----------------------------------------------------------------------------
(* C19 *)

\* C19 (old router untouched by reload): while a warm reload is under way,
\* no step changes the route table of any router built before the reload, in
\* particular not that of the router installed as the Live Handler
\* Reference: the routes materialized by the reload land on the newly built
\* router only, which is not the installed one until the last step.
C19_OldRouterUntouched ==
    /\ [](wlPc \in {"warm_update", "warm_register", "warm_install"} =>
            handler # newRouter)
    /\ [][(wlPc \in WarmPcs) =>
            /\ \A r \in 1..Len(routers) : r # newRouter => routers'[r] = routers[r]
            /\ handler # 0 => routers'[handler] = routers[handler]]_vars

\* a warm reload has materialized two routes on the router it built while
\* the router of the cold start, still installed, is as it was
C19_Witness ==
    /\ wlPc = "warm_install"
    /\ server = "serving"
    /\ handler = initRouter
    /\ routers[handler] = {NotFoundRoute}
    /\ routers[newRouter] = {"a", "b"}

----------------------------------------------------------------------------
(* C20 *)

\* the Watch Loop takes the message at the head of the channel
TakesHead ==
    /\ wlPc = "select"
    /\ configurationChan # <<>>
    /\ configurationChan' = Tail(configurationChan)

\* what handleEvent and the Watch Loop work on
Reconfigured == <<currentConfigurations, handled, events, routers, started,
                  handler, register>>

\* C20 (provider end terminates the loop): taking a Change Message whose
\* snapshot is nil, or finding the configuration-change channel closed and
\* drained, terminates the Watch Loop; the terminating step invokes no
\* handleEvent and leaves Current Configuration unchanged; a terminated loop
\* stays terminated, takes no message queued after and changes nothing; an
\* empty non-nil snapshot that differs from Current Configuration becomes
\* Current Configuration and is passed to handleEvent as any other.
C20_ProviderEndTerminates ==
    /\ [][(TakesHead /\ Head(configurationChan).isNil) => wlPc' = "done"]_vars
    /\ [][(wlPc = "select" /\ wlPc' # wlPc /\ configurationChan = <<>>) =>
            /\ wlPc' = "done"
            /\ confClosed \/ CanRecv(stopChan, stopClosed)]_vars
    /\ [][(wlPc = "select" /\ wlPc' = "done") => UNCHANGED Reconfigured]_vars
    /\ [][wlPc = "done" =>
            /\ wlPc' = "done"
            /\ Len(configurationChan') >= Len(configurationChan)
            /\ UNCHANGED <<currentConfigurations, handled, events, started>>]_vars
    /\ [][(/\ TakesHead
           /\ Head(configurationChan) = Conf(<<>>)
           /\ currentConfigurations # Conf(<<>>)) =>
            /\ currentConfigurations' = Conf(<<>>)
            /\ handled' = Append(handled, Conf(<<>>))
            /\ wlPc' = handleEventEntry(started)]_vars

\* the loop handled the empty snapshot, then took a nil snapshot and
\* terminated, leaving the message queued after it in the channel
C20_Witness ==
    /\ wlPc = "done"
    /\ Len(sent) = 3 /\ sent[1] = Conf(<<>>) /\ sent[2] = NilConf
    /\ configurationChan = <<sent[3]>>
    /\ handled = <<Conf(<<>>)>>
    /\ currentConfigurations = Conf(<<>>)
    /\ stopChan = <<>> /\ ~stopClosed

====
